---- MODULE Spec2Model ----
(***************************************************************************)
(* Model of the guardrail validation engine of the calendar rescheduler   *)
(* (lib/guardrails/validateReschedule.ts, lib/google/calendarClient.ts,   *)
(* config/guardrails.ts), of the routes POST /api/reschedule and         *)
(* POST /api/validate-reschedule, of the page that calls them             *)
(* (app/page.tsx) and of the eval runner (evals/runner).                  *)
(*                                                                         *)
(* Time is counted in minutes.  Instant 0 is Saturday 00:00 UTC; the day  *)
(* after it (a Sunday) is the day on which America/New_York moves from    *)
(* UTC-5 to UTC-4.  A timestamp with offset (an ISO string) is the pair   *)
(* of its wall-clock reading and its offset.                              *)
(***************************************************************************)
EXTENDS Integers, Sequences, FiniteSets, TLC

VARIABLES
    env,          \* process.env.GUARDRAILS_JSON
    now,          \* the instant DateTime.now() returns
    input,        \* the ValidationInput handed to validateReschedule
    policyArg,    \* the second argument a caller hands to validateReschedule
    request,      \* the HTTP request handed to a route
    harness,      \* the eval runner: its position, frozen clock and mock data
    page,         \* the React state of the page and the requests it has sent
    calendarEvent,\* the event stored by the calendar provider
    pc,           \* position of the validateReschedule call
    policy,       \* the policy loaded by the call
    violations,   \* the call's violations array
    calendarIds,  \* Array.from(calendarsToCheck) of the call
    listIdx,      \* loop position of checkConflictsWithEventsList
    fbCalls,      \* freebusy.query calls issued, with their outcome
    listCalls,    \* events.list calls issued, with their outcome
    returned,     \* what the call returned
    earlier,      \* what an earlier call with the same input saw and returned
    routePc,      \* position of the route handler
    routeWork,    \* locals of the handler (newStart, newEnd)
    response,     \* the handler's HTTP response
    getCalls,     \* events.get calls issued, with their outcome
    patchCalls    \* events.patch calls issued

vars == <<env, now, input, policyArg, request, harness, page, calendarEvent, pc, policy, violations,
          calendarIds, listIdx, fbCalls, listCalls, returned, earlier, routePc,
          routeWork, response, getCalls, patchCalls>>

engineVars == <<pc, policy, violations, calendarIds, listIdx, fbCalls,
                listCalls, returned, earlier>>
routeVars == <<routePc, routeWork, response, getCalls, patchCalls,
               calendarEvent>>
worldVars == <<env, now, input, policyArg, request, harness, page>>

----------------------------------------------------------------------------
(* Bounds of the model *)

\* last day (counted from instant 0) on which a proposal may start
MaxDay == 3
\* most events the provider returns for one calendar and window
MaxEvents == 1
\* most busy intervals the provider returns for one calendar
MaxBusy == 1

----------------------------------------------------------------------------
(* Time, zones and timestamps *)

Undefined == "undefined"

MinutesPerDay == 24 * 60

\* weekday of day 0 in luxon's numbering (1 = Monday .. 7 = Sunday)
EpochLuxonWeekday == 5 + 1

\* the instant America/New_York switches to daylight time: Sunday 07:00 UTC
DstStart == MinutesPerDay + 7 * 60

TimeZones == {"UTC", "America/New_York", "Asia/Tokyo"}

\* IANA offset of a zone at an instant, in minutes
ZoneOffset(zone, t) ==
    CASE zone = "America/New_York" -> IF t < DstStart THEN -(5 * 60) ELSE -(4 * 60)
      [] zone = "Asia/Tokyo" -> 9 * 60
      [] OTHER -> 0

\* DateTime.fromISO: the instant of a timestamp with offset
FromISO(iso) == iso.wall - iso.off

\* Date.prototype.toISOString: the instant rendered in UTC ("...Z")
ToISOString(t) == [wall |-> t, off |-> 0]

\* DateTime.setZone: the same instant, read on the wall clock of the zone
SetZone(t, zone) == [ts |-> t, zone |-> zone, o |-> ZoneOffset(zone, t),
                     local |-> t + ZoneOffset(zone, t)]

\* luxon fixOffset: the instant of a wall-clock reading, from an offset guess
FixOffset(localTS, o, zone) ==
    LET utcGuess == localTS - o
        o2 == ZoneOffset(zone, utcGuess)
        utcGuess2 == utcGuess - (o2 - o)
        o3 == ZoneOffset(zone, utcGuess2)
        lo == IF o2 < o3 THEN o2 ELSE o3
    IN  IF o = o2 THEN utcGuess
        ELSE IF o2 = o3 THEN utcGuess2
        ELSE localTS - lo

\* DateTime.set({hour, minute, second: 0, millisecond: 0}): same calendar
\* date on the wall clock of dt's zone, at hh:mm
SetTimeOfDay(dt, hh, mm) ==
    LET localTS == (dt.local \div MinutesPerDay) * MinutesPerDay + hh * 60 + mm
        ts == FixOffset(localTS, dt.o, dt.zone)
    IN  SetZone(ts, dt.zone)

\* DateTime.weekday: 1 = Monday .. 7 = Sunday, on the wall clock of the zone
LuxonWeekday(dt) ==
    (((dt.local \div MinutesPerDay) + EpochLuxonWeekday - 1) % 7) + 1

\* a name table that starts on Monday, as luxon's numbering does
getWeekdayName_MondayFirst(weekday) ==
    <<"Monday", "Tuesday", "Wednesday", "Thursday", "Friday", "Saturday",
      "Sunday">>[weekday + 1]

getWeekdayName(weekday) ==
    <<"Sunday", "Monday", "Tuesday", "Wednesday", "Thursday", "Friday",
      "Saturday">>[weekday + 1]

----------------------------------------------------------------------------
(* Policy: config/guardrails.ts *)

WorkDay == [start |-> <<9, 0>>, end |-> <<17, 0>>]

defaultPolicy ==
    [minNoticeHours |-> 24,
     policyTimeZone |-> Undefined,
     businessHoursByWeekday |-> [d \in 1..5 |-> WorkDay],
     calendarsToCheck |-> [isArray |-> TRUE, ids |-> <<>>],
     treatTentativeAsBusy |-> TRUE,
     ignoreDeclined |-> TRUE,
     conflictMethod |-> "freebusy"]

\* a merge that descends into businessHoursByWeekday: the weekdays the JSON
\* omits keep their default hours
SpreadMerge_Deep(base, over) ==
    [k \in (DOMAIN base) \cup (DOMAIN over) |->
        IF k \notin DOMAIN over THEN base[k]
        ELSE IF k = "businessHoursByWeekday" /\ k \in DOMAIN base
        THEN [d \in (DOMAIN base[k]) \cup (DOMAIN over[k]) |->
                 IF d \in DOMAIN over[k] THEN over[k][d] ELSE base[k][d]]
        ELSE over[k]]

\* { ...defaultPolicy, ...parsed }
SpreadMerge(base, over) ==
    [k \in (DOMAIN base) \cup (DOMAIN over) |->
        IF k \in DOMAIN over THEN over[k] ELSE base[k]]

\* loadPolicy(): e is the environment variable, [defined, parses, parsed]
loadPolicy(e) ==
    IF e.defined /\ e.parses THEN SpreadMerge(defaultPolicy, e.parsed)
    ELSE defaultPolicy

\* validatePolicy(policy): the errors it pushes, for the fields of the model
\* (times are held as hour and minute, so their format is always valid)
validatePolicy(pol) ==
    {[error |-> "minNoticeHours must be non-negative", weekday |-> -1] :
        x \in IF pol.minNoticeHours < 0 THEN {0} ELSE {}}
    \cup {[error |-> "Invalid weekday", weekday |-> d] :
            d \in {w \in DOMAIN pol.businessHoursByWeekday : w < 0 \/ w > 6}}
    \cup {[error |-> "Start time must be before end time", weekday |-> d] :
            d \in {w \in DOMAIN pol.businessHoursByWeekday :
                     /\ w >= 0 /\ w <= 6
                     /\ LET hours == pol.businessHoursByWeekday[w]
                             startMinutes == hours.start[1] * 60 + hours.start[2]
                             endMinutes == hours.end[1] * 60 + hours.end[2]
                        IN  startMinutes >= endMinutes}}
    \cup {[error |-> "conflictMethod must be either freebusy or list",
            weekday |-> -1] :
            x \in IF pol.conflictMethod \notin {"freebusy", "list"}
                  THEN {0} ELSE {}}

----------------------------------------------------------------------------
(* Violations *)

\* the null a check returns when it finds nothing
NoViolation == [code |-> "none"]

\* if (v) violations.push(v)
PushIf(vs, v) == IF v.code # "none" THEN Append(vs, v) ELSE vs

\* a || b || 'UTC'
OrElseUTC(a, b) ==
    IF a # Undefined THEN a ELSE IF b # Undefined THEN b ELSE "UTC"

Codes(vs) == [i \in 1..Len(vs) |-> vs[i].code]

----------------------------------------------------------------------------
(* Time evaluator: checkNoticePeriod, checkBusinessHours *)

\* a notice check that also refuses the boundary (<= for <)
NoticeTooSoon_Inclusive(diffMinutes, minNoticeHours) ==
    diffMinutes <= minNoticeHours * 60

\* diffHours < policy.minNoticeHours, both sides counted in minutes
NoticeTooSoon(diffMinutes, minNoticeHours) == diffMinutes < minNoticeHours * 60

\* a notice check evaluated in the zone of the original event
NoticeZone_Event(in, pol) ==
    OrElseUTC(pol.policyTimeZone, in.originalEvent.start.timeZone)

\* policy.policyTimeZone || input.userTimeZone || 'UTC'
NoticeZone(in, pol) == OrElseUTC(pol.policyTimeZone, in.userTimeZone)

\* a difference of wall-clock readings: the start as an instant, now as
\* read on the clock of the evaluation zone
DiffMinutes_WallClock(start, nowServer) == start - nowServer.local

\* start.diff(nowServer, 'hours'): the difference of the two instants
DiffMinutes(start, nowServer) == start - nowServer.ts

checkNoticePeriod(in, pol, clock) ==
    LET evalTimeZone == NoticeZone(in, pol)
        nowServer == SetZone(clock, evalTimeZone)
        start == FromISO(in.proposedStartISO)
        diffMinutes == DiffMinutes(start, nowServer)
    IN  IF NoticeTooSoon(diffMinutes, pol.minNoticeHours)
        THEN [code |-> "NOTICE_TOO_SOON",
              proposedStart |-> in.proposedStartISO,
              now |-> nowServer.ts,
              diffMinutes |-> diffMinutes,
              minNoticeHours |-> pol.minNoticeHours,
              evaluationTimeZone |-> evalTimeZone]
        ELSE NoViolation

\* localStart.weekday % 7: 0 = Sunday .. 6 = Saturday
WeekdayIndex(localStart) == LuxonWeekday(localStart) % 7

\* a business-hours check with a half-open window (>= for > at the close)
OutsideHours_HalfOpen(localStart, localEnd, openTime, closeTime) ==
    localStart.ts < openTime.ts \/ localEnd.ts >= closeTime.ts

\* localStart < openTime || localEnd > closeTime (instants are compared)
OutsideHours(localStart, localEnd, openTime, closeTime) ==
    localStart.ts < openTime.ts \/ localEnd.ts > closeTime.ts

\* a close time built on the day of the proposed end
CloseDay_OfEnd(localStart, localEnd) == localEnd

\* closeTime = localStart.set(...): the close is built on the day of the start
CloseDay(localStart, localEnd) == localStart

\* a business-hours check evaluated in the caller's zone
BusinessHoursZone_User(in, pol) ==
    OrElseUTC(pol.policyTimeZone, in.userTimeZone)

\* policy.policyTimeZone || input.originalEvent.start.timeZone || 'UTC'
BusinessHoursZone(in, pol) ==
    OrElseUTC(pol.policyTimeZone, in.originalEvent.start.timeZone)

checkBusinessHours(in, pol) ==
    LET evalTimeZone == BusinessHoursZone(in, pol)
        localStart == SetZone(FromISO(in.proposedStartISO), evalTimeZone)
        localEnd == SetZone(FromISO(in.proposedEndISO), evalTimeZone)
        weekday == WeekdayIndex(localStart)
        hours == pol.businessHoursByWeekday
    IN  IF weekday \notin DOMAIN hours
        THEN [code |-> "BUSINESS_HOURS_OUTSIDE",
              message |-> <<"No business hours defined for ",
                            getWeekdayName(weekday), ".">>,
              weekday |-> weekday,
              evaluationTimeZone |-> evalTimeZone]
        ELSE LET businessHours == hours[weekday]
                 openTime == SetTimeOfDay(localStart, businessHours.start[1],
                                          businessHours.start[2])
                 closeTime == SetTimeOfDay(CloseDay(localStart, localEnd),
                                           businessHours.end[1],
                                           businessHours.end[2])
             IN  IF OutsideHours(localStart, localEnd, openTime, closeTime)
                 THEN [code |-> "BUSINESS_HOURS_OUTSIDE",
                       message |-> <<"Proposed time ", " is outside business hours ">>,
                       weekday |-> weekday,
                       openTime |-> openTime.ts,
                       closeTime |-> closeTime.ts,
                       evaluationTimeZone |-> evalTimeZone]
                 ELSE NoViolation

----------------------------------------------------------------------------
(* Availability prober: calendarClient.ts and checkConflicts* *)

\* events.filter(event => event.status !== 'cancelled')
DropCancelled(events) == SelectSeq(events, LAMBDA e : e.status # "cancelled")

\* attendees.find(att => att.self): index of the first own entry, 0 if none
FindSelf(attendees) ==
    IF \E i \in 1..Len(attendees) : attendees[i].self
    THEN CHOOSE i \in 1..Len(attendees) :
            attendees[i].self /\ \A j \in 1..(i - 1) : ~attendees[j].self
    ELSE 0

\* an ignoreDeclined filter that forgets att.self: anyone's decline counts
NotDeclinedByAnyone(event) ==
    IF ~event.hasAttendees THEN TRUE
    ELSE \A i \in 1..Len(event.attendees) :
            event.attendees[i].responseStatus # "declined"

\* the callback of the ignoreDeclined filter
NotDeclinedBySelf(event) ==
    IF ~event.hasAttendees THEN TRUE
    ELSE LET i == FindSelf(event.attendees)
         IN  i = 0 \/ event.attendees[i].responseStatus # "declined"

DropDeclined(events) == SelectSeq(events, NotDeclinedBySelf)

\* events.filter(event => event.status !== 'tentative')
DropTentative(events) == SelectSeq(events, LAMBDA e : e.status # "tentative")

\* listEvents, after the provider answered with items
listEvents(items, treatTentativeAsBusy, ignoreDeclined) ==
    LET e1 == DropCancelled(items)
        e2 == IF ignoreDeclined THEN DropDeclined(e1) ELSE e1
        e3 == IF ~treatTentativeAsBusy THEN DropTentative(e2) ELSE e2
    IN  e3

\* a check that wants every calendar of the answer busy
checkConflictsWithFreeBusy_All(freeBusyResults) ==
    \A i \in 1..Len(freeBusyResults) :
        freeBusyResults[i].hasBusy /\ Len(freeBusyResults[i].busy) > 0

\* checkConflictsWithFreeBusy, after the provider answered with calendars
checkConflictsWithFreeBusy(freeBusyResults) ==
    \E i \in 1..Len(freeBusyResults) :
        freeBusyResults[i].hasBusy /\ Len(freeBusyResults[i].busy) > 0

\* events.length > 0
EventsRemain(events) == Len(events) > 0

\* policy.calendarsToCheck || []
CalendarsOrEmpty(pol) ==
    IF pol.calendarsToCheck.isArray THEN pol.calendarsToCheck.ids ELSE <<>>

\* an array built without the Set: every id as often as it is listed
ArrayFromSet_KeepAll(ids) == ids

\* Array.from(new Set(ids)): first occurrences, in insertion order
RECURSIVE ArrayFromSet(_)
ArrayFromSet(ids) ==
    IF ids = <<>> THEN <<>>
    ELSE LET front == ArrayFromSet(SubSeq(ids, 1, Len(ids) - 1))
             last == ids[Len(ids)]
         IN  IF \E i \in 1..Len(front) : front[i] = last
             THEN front ELSE Append(front, last)

\* the calendars checkConflicts hands to checkConflictsForCalendars
CalendarsToQuery(in, pol) ==
    ArrayFromSet(<<in.calendarId>> \o CalendarsOrEmpty(pol))

\* the TIME_CONFLICT violation of checkConflicts, or null
ConflictViolation(hasConflict, in, pol, ids) ==
    IF hasConflict
    THEN [code |-> "TIME_CONFLICT",
          message |-> <<"Proposed time overlaps a busy event.">>,
          proposedStart |-> in.proposedStartISO,
          proposedEnd |-> in.proposedEndISO,
          calendarsChecked |-> ids,
          conflictMethod |-> pol.conflictMethod]
    ELSE NoViolation

\* a validateReschedule that returns early once a time rule is broken
AfterTimeChecks_ShortCircuit(vs, pol) ==
    IF vs # <<>> THEN "done"
    ELSE IF pol.conflictMethod = "freebusy" THEN "freebusy" ELSE "list"

\* where validateReschedule goes after the notice and business-hours checks
\* (checkConflicts is entered whatever they returned)
AfterTimeChecks(vs, pol) ==
    IF pol.conflictMethod = "freebusy" THEN "freebusy" ELSE "list"

\* a checkConflictsForCalendars without the catch: the failure ends the call
AfterFreeBusyThrow_Surface == "done"

\* a checkConflictsForCalendars that asks the aggregate source again
AfterFreeBusyThrow_Retry == "freebusy"

\* where checkConflictsForCalendars goes when its try block threw
AfterFreeBusyThrow == "list"

\* the for loop of checkConflictsWithEventsList after calendar i gave no
\* remaining event: TRUE at the end of the loop, FALSE to go on
LoopDone(i, ids) == i >= Len(ids)

\* a loop that goes through every calendar before it returns
StopAtConflict_AtEnd(i, ids) == LoopDone(i, ids)

\* return true inside the loop, after calendar i gave a remaining event: the
\* loop ends there, whatever calendars are left
StopAtConflict(i, ids) == TRUE

\* a loop that gives up at the first calendar whose fetch threw
AfterCalendarFailed_Abort(i, ids) == TRUE

\* the catch block inside the loop, after the fetch of calendar i threw:
\* nothing but a warning, the loop goes on as after an empty answer
AfterCalendarFailed(i, ids) == LoopDone(i, ids)

----------------------------------------------------------------------------
(* What the calendar provider may answer *)

Calendars == {"primary", "team"}

\* attendee lists of an event: none; the caller declined; the caller
\* accepted and someone else declined; only someone else, who declined
AttendeeLists ==
    {<<>>,
     <<[self |-> FALSE, responseStatus |-> "accepted"],
       [self |-> TRUE, responseStatus |-> "declined"]>>,
     <<[self |-> FALSE, responseStatus |-> "declined"],
       [self |-> TRUE, responseStatus |-> "accepted"]>>,
     <<[self |-> FALSE, responseStatus |-> "declined"]>>}

\* events as events.list returns them (the fields listEvents reads)
ProviderEvents ==
    {[status |-> s, hasAttendees |-> a # <<>>, attendees |-> a] :
        s \in {"confirmed", "tentative", "cancelled"}, a \in AttendeeLists}

RECURSIVE SeqsUpTo(_, _)
SeqsUpTo(S, n) ==
    IF n = 0 THEN {<<>>}
    ELSE LET shorter == SeqsUpTo(S, n - 1)
         IN  shorter \cup {Append(q, x) : q \in shorter, x \in S}

\* response.data.items of one events.list call
AllItems == SeqsUpTo(ProviderEvents, MaxEvents)
QuietItems == {<<>>}
\* a calendar with nothing in the window, or with one confirmed event
PlainItems ==
    {<<>>, <<[status |-> "confirmed", hasAttendees |-> FALSE, attendees |-> <<>>]>>}

\* the same window one week earlier: an interval that does not overlap it
WeekBefore(win) ==
    [start |-> [win.start EXCEPT !.wall = @ - 7 * MinutesPerDay],
     end |-> [win.end EXCEPT !.wall = @ - 7 * MinutesPerDay]]

\* one calendar of a freebusy answer: left out, without a busy list, or
\* with a list of 0..MaxBusy intervals (the window itself, or intervals
\* that do not overlap it)
BusyOptions(win) ==
    {[present |-> FALSE, hasBusy |-> FALSE, busy |-> <<>>],
     [present |-> TRUE, hasBusy |-> FALSE, busy |-> <<>>]}
    \cup {[present |-> TRUE, hasBusy |-> TRUE, busy |-> [i \in 1..n |-> iv]] :
            n \in 0..MaxBusy, iv \in {win, WeekBefore(win)}}
QuietBusyOptions(win) == {[present |-> TRUE, hasBusy |-> TRUE, busy |-> <<>>]}
\* a calendar that is free in the window, or busy for all of it
PlainBusyOptions(win) ==
    {[present |-> TRUE, hasBusy |-> TRUE, busy |-> <<>>],
     [present |-> TRUE, hasBusy |-> TRUE, busy |-> <<win>>]}

\* response.data.calendars || [] for a choice of one option per calendar
RECURSIVE FreeBusyAnswer(_, _)
FreeBusyAnswer(ids, choice) ==
    IF ids = <<>> THEN <<>>
    ELSE LET c == ids[1]
             rest == FreeBusyAnswer(Tail(ids), choice)
         IN  IF choice[c].present
             THEN <<[calendarId |-> c, hasBusy |-> choice[c].hasBusy,
                     busy |-> choice[c].busy]>> \o rest
             ELSE rest

Range(q) == {q[i] : i \in 1..Len(q)}

----------------------------------------------------------------------------
(* validateReschedule *)

NotReturned == [done |-> FALSE, violations |-> <<>>]

NoEarlierCall ==
    [done |-> FALSE, violations |-> <<>>, fbCalls |-> <<>>, listCalls |-> <<>>]

\* a violations array kept across calls instead of created by each
NewViolations_Shared(old) == old

\* const violations: Violation[] = []; old is what an earlier call left
NewViolations(old) == <<>>

\* the window handed to the provider
Window(in) == [start |-> in.proposedStartISO, end |-> in.proposedEndISO]

\* validateReschedule up to its first provider call: loadPolicy, the notice
\* check, the business-hours check, and the calendar set of checkConflicts
ValidateStart ==
    /\ pc = "idle"
    /\ routePc \in {"idle", "validate"}
    /\ LET pol == loadPolicy(env)
           vs == PushIf(PushIf(NewViolations(violations),
                               checkNoticePeriod(input, pol, now)),
                        checkBusinessHours(input, pol))
       IN  /\ policy' = pol
           /\ violations' = vs
           /\ calendarIds' = CalendarsToQuery(input, pol)
           /\ pc' = AfterTimeChecks(vs, pol)
    /\ listIdx' = 1
    /\ UNCHANGED <<fbCalls, listCalls, returned, earlier>>
    /\ UNCHANGED <<worldVars, routeVars>>

\* the rest of checkConflicts and of validateReschedule once hasConflict is
\* known: push TIME_CONFLICT if any, return the list
Finish(hasConflict) ==
    LET vs == PushIf(violations,
                     ConflictViolation(hasConflict, input, policy, calendarIds))
    IN  /\ violations' = vs
        /\ returned' = [done |-> TRUE, violations |-> vs]
        /\ pc' = "done"

\* checkConflictsWithFreeBusy: the freebusy.query call answers or throws
FreeBusyQuery(options) ==
    /\ pc = "freebusy"
    /\ LET call == [calendarIds |-> calendarIds, window |-> Window(input)]
       IN  \/ /\ fbCalls' = Append(fbCalls,
                      [call |-> call, outcome |-> "throw", answer |-> <<>>])
              /\ pc' = AfterFreeBusyThrow
              /\ UNCHANGED <<violations, returned>>
           \/ \E choice \in [Range(calendarIds) -> options] :
                 LET answer == FreeBusyAnswer(calendarIds, choice)
                 IN  /\ fbCalls' = Append(fbCalls,
                            [call |-> call, outcome |-> "ok", answer |-> answer])
                     /\ Finish(checkConflictsWithFreeBusy(answer))
    /\ UNCHANGED <<policy, calendarIds, listIdx, listCalls, earlier>>
    /\ UNCHANGED <<worldVars, routeVars>>

\* one turn of the loop of checkConflictsWithEventsList: the events.list call
\* for calendarIds[listIdx] answers or throws
ListEvents(itemSets) ==
    /\ pc = "list"
    /\ LET call == [calendarId |-> calendarIds[listIdx],
                    window |-> Window(input),
                    treatTentativeAsBusy |-> policy.treatTentativeAsBusy,
                    ignoreDeclined |-> policy.ignoreDeclined]
           Continue(atEnd) == IF atEnd
                              THEN /\ Finish(FALSE)
                                   /\ UNCHANGED listIdx
                              ELSE /\ listIdx' = listIdx + 1
                                   /\ UNCHANGED <<pc, violations, returned>>
       IN  \/ /\ listCalls' = Append(listCalls,
                      [call |-> call, outcome |-> "throw", items |-> <<>>])
              /\ Continue(AfterCalendarFailed(listIdx, calendarIds))
           \/ \E items \in itemSets :
                 /\ listCalls' = Append(listCalls,
                        [call |-> call, outcome |-> "ok", items |-> items])
                 /\ IF EventsRemain(listEvents(items, call.treatTentativeAsBusy,
                                               call.ignoreDeclined))
                    THEN IF StopAtConflict(listIdx, calendarIds)
                         THEN /\ Finish(TRUE)
                              /\ UNCHANGED listIdx
                         ELSE /\ listIdx' = listIdx + 1
                              /\ UNCHANGED <<pc, violations, returned>>
                    ELSE Continue(LoopDone(listIdx, calendarIds))
    /\ UNCHANGED <<policy, calendarIds, fbCalls, earlier>>
    /\ UNCHANGED <<worldVars, routeVars>>

\* the caller, having got the result, calls validateReschedule once more
\* with the same input: the result and the provider's answers are kept for
\* comparison, the locals of the finished call are what it left behind
CallAgain ==
    /\ pc = "done"
    /\ ~earlier.done
    /\ earlier' = [done |-> TRUE, violations |-> returned.violations,
                   fbCalls |-> fbCalls, listCalls |-> listCalls]
    /\ pc' = "idle"
    /\ fbCalls' = <<>>
    /\ listCalls' = <<>>
    /\ returned' = NotReturned
    /\ UNCHANGED <<policy, violations, calendarIds, listIdx>>
    /\ UNCHANGED <<worldVars, routeVars>>

----------------------------------------------------------------------------
(* POST /api/reschedule *)

\* the zone of the server process, in which new Date("YYYY-MM-DDTHH:MM")
\* reads its argument
ServerTimeZone == "UTC"

\* new Date(`${newDate}T${newTime}`)
DateFromLocal(wall) == wall - ZoneOffset(ServerTimeZone, wall)

NoResponse == [status |-> 0, body |-> "none"]

\* a route that does not look at the cookie
Unauthenticated_Never(req) == FALSE

\* !accessToken
Unauthenticated(req) == ~req.hasToken

\* the access_token cookie check
RescheduleReceive ==
    /\ request.path = "/api/reschedule"
    /\ routePc = "idle"
    /\ pc = "idle"
    /\ IF Unauthenticated(request)
       THEN /\ response' = [status |-> 401, body |-> "Not authenticated"]
            /\ routePc' = "done"
       ELSE /\ routePc' = "get"
            /\ UNCHANGED response
    /\ UNCHANGED <<routeWork, getCalls, patchCalls, calendarEvent>>
    /\ UNCHANGED <<worldVars, engineVars>>

\* events.get answers or throws; then the new start and end are computed
RescheduleGet ==
    /\ request.path = "/api/reschedule"
    /\ routePc = "get"
    /\ \/ /\ getCalls' = Append(getCalls, [eventId |-> request.eventId,
                                            outcome |-> "throw"])
          /\ response' = [status |-> 500, body |-> "Failed to reschedule event"]
          /\ routePc' = "done"
          /\ UNCHANGED routeWork
       \/ /\ getCalls' = Append(getCalls, [eventId |-> request.eventId,
                                            outcome |-> "ok"])
          /\ LET currentStart == calendarEvent.start.at
                 currentEnd == calendarEvent.end.at
                 duration == currentEnd - currentStart
                 newStart == DateFromLocal(request.newLocal)
                 newEnd == IF request.keepDuration THEN newStart + duration
                           ELSE DateFromLocal(request.newLocal)
             IN  IF ~request.hasFields
                 THEN \* Invalid Date: toISOString throws before the patch call
                      /\ response' = [status |-> 500,
                                      body |-> "Failed to reschedule event"]
                      /\ routePc' = "done"
                      /\ UNCHANGED routeWork
                 ELSE /\ routeWork' = [newStart |-> newStart, newEnd |-> newEnd]
                      /\ routePc' = "patch"
                      /\ UNCHANGED response
    /\ UNCHANGED <<patchCalls, calendarEvent>>
    /\ UNCHANGED <<worldVars, engineVars>>

\* events.patch answers or throws
ReschedulePatch ==
    /\ request.path = "/api/reschedule"
    /\ routePc = "patch"
    /\ LET body == [start |-> ToISOString(routeWork.newStart),
                    end |-> ToISOString(routeWork.newEnd)]
       IN  /\ patchCalls' = Append(patchCalls,
                  [eventId |-> request.eventId, requestBody |-> body,
                   timeZone |-> ServerTimeZone])
           /\ \/ /\ response' = [status |-> 500,
                                 body |-> "Failed to reschedule event"]
                 /\ UNCHANGED calendarEvent
              \/ /\ response' = [status |-> 200, body |-> "success"]
                 /\ calendarEvent' =
                        [calendarEvent EXCEPT !.start.at = routeWork.newStart,
                                              !.end.at = routeWork.newEnd]
    /\ routePc' = "done"
    /\ UNCHANGED <<routeWork, getCalls>>
    /\ UNCHANGED <<worldVars, engineVars>>

----------------------------------------------------------------------------
(* POST /api/validate-reschedule *)

\* userTimeZone || Intl.DateTimeFormat().resolvedOptions().timeZone
UserOrServerZone(userTimeZone) ==
    IF userTimeZone # Undefined THEN userTimeZone ELSE ServerTimeZone

\* the cookie check and the check of the required fields
ValidateReceive ==
    /\ request.path = "/api/validate-reschedule"
    /\ routePc = "idle"
    /\ pc = "idle"
    /\ IF Unauthenticated(request)
       THEN /\ response' = [status |-> 401, body |-> "Not authenticated"]
            /\ routePc' = "done"
       ELSE IF ~request.hasFields
       THEN /\ response' = [status |-> 400,
                            body |-> "Missing required fields: eventId, newDate, newTime"]
            /\ routePc' = "done"
       ELSE /\ routePc' = "get"
            /\ UNCHANGED response
    /\ UNCHANGED <<routeWork, getCalls, patchCalls, calendarEvent>>
    /\ UNCHANGED <<worldVars, engineVars>>

\* the response of the catch block
ValidationFailed ==
    [status |-> 500, body |-> "Failed to validate reschedule request"]

\* getEvent answers or throws; an event without start time is refused; else
\* the validation input is built and handed to validateReschedule
ValidateGet ==
    /\ request.path = "/api/validate-reschedule"
    /\ routePc = "get"
    /\ \/ /\ getCalls' = Append(getCalls, [eventId |-> request.eventId,
                                            outcome |-> "throw"])
          /\ response' = ValidationFailed
          /\ routePc' = "done"
          /\ UNCHANGED <<routeWork, input>>
       \/ /\ getCalls' = Append(getCalls, [eventId |-> request.eventId,
                                            outcome |-> "ok"])
          /\ LET currentEvent == calendarEvent
                 duration == currentEvent.end.at - currentEvent.start.at
                 newStart == DateFromLocal(request.newLocal)
                 newEnd == IF request.keepDuration THEN newStart + duration
                           ELSE DateFromLocal(request.newLocal)
             IN  IF ~currentEvent.start.hasDateTime /\ ~currentEvent.start.hasDate
                 THEN /\ response' = [status |-> 400,
                                      body |-> "Cannot reschedule all-day events"]
                      /\ routePc' = "done"
                      /\ UNCHANGED <<routeWork, input>>
                 ELSE /\ routeWork' = [newStart |-> newStart, newEnd |-> newEnd]
                      /\ input' = [originalEvent |-> currentEvent,
                                   proposedStartISO |-> ToISOString(newStart),
                                   proposedEndISO |-> ToISOString(newEnd),
                                   userTimeZone |->
                                       UserOrServerZone(request.userTimeZone),
                                   calendarId |-> "primary",
                                   accessToken |-> "mock-token"]
                      /\ routePc' = "validate"
                      /\ UNCHANGED response
    /\ UNCHANGED <<patchCalls, calendarEvent>>
    /\ UNCHANGED <<env, now, policyArg, request, harness, page, engineVars>>

\* a route that calls every request valid
IsValid_Always(vs) == TRUE

\* violations.length === 0
IsValid(vs) == Len(vs) = 0

\* validateReschedule has returned: the route answers with its result
ValidateRespond ==
    /\ routePc = "validate"
    /\ pc = "done"
    /\ response' = [status |-> 200, body |-> "validation",
                    valid |-> IsValid(returned.violations),
                    violations |-> returned.violations,
                    proposedStart |-> input.proposedStartISO,
                    proposedEnd |-> input.proposedEndISO,
                    timeZone |-> input.userTimeZone]
    /\ routePc' = "done"
    /\ UNCHANGED <<routeWork, getCalls, patchCalls, calendarEvent>>
    /\ UNCHANGED <<worldVars, engineVars>>

----------------------------------------------------------------------------
(* The eval runner: evals/runner/clock.ts and runTestCase *)

\* let frozenNow: DateTime | null = null
NotFrozen == [frozen |-> FALSE, at |-> 0]

\* the runner outside a test case; nowISO is the case it will run
HarnessFor(nowISO) ==
    [pc |-> "idle", nowISO |-> nowISO, frozenNow |-> NotFrozen,
     mockSet |-> FALSE]

NoHarness == HarnessFor(0)

\* freezeTime(nowISO)
freezeTime(nowISO) == [frozen |-> TRUE, at |-> nowISO]

\* runTestCase up to the unit test: freezeTime, setMockData
RunTestCaseBegin ==
    /\ harness.pc = "idle"
    /\ pc = "idle"
    /\ routePc = "idle"
    /\ harness' = [harness EXCEPT !.pc = "running",
                                  !.frozenNow = freezeTime(harness.nowISO),
                                  !.mockSet = TRUE]
    /\ UNCHANGED <<env, now, input, policyArg, request, page>>
    /\ UNCHANGED <<engineVars, routeVars>>

\* the finally block of runTestCase, reached when the validation has
\* returned or when an exception ended the try block before it started
RunTestCaseEnd ==
    /\ harness.pc = "running"
    /\ pc \in {"idle", "done"}
    /\ harness' = [harness EXCEPT !.pc = "ended",
                                  !.frozenNow = NotFrozen,
                                  !.mockSet = FALSE]
    /\ UNCHANGED <<env, now, input, policyArg, request, page>>
    /\ UNCHANGED <<engineVars, routeVars>>

----------------------------------------------------------------------------
(* Inputs *)

At(day, hour, minute) == day * MinutesPerDay + hour * 60 + minute

\* the event being rescheduled: Monday 10:00-11:00 UTC
StoredEvent(timeZone) ==
    [id |-> "test-event-id",
     start |-> [hasDateTime |-> TRUE, hasDate |-> FALSE, at |-> At(2, 10, 0),
                timeZone |-> timeZone],
     end |-> [hasDateTime |-> TRUE, hasDate |-> FALSE, at |-> At(2, 11, 0),
              timeZone |-> timeZone]]

\* an all-day event on that Monday: start.date and end.date only, which
\* new Date(date) reads as midnight UTC
AllDayEvent ==
    [id |-> "test-event-id",
     start |-> [hasDateTime |-> FALSE, hasDate |-> TRUE, at |-> At(2, 0, 0),
                timeZone |-> Undefined],
     end |-> [hasDateTime |-> FALSE, hasDate |-> TRUE, at |-> At(3, 0, 0),
              timeZone |-> Undefined]]

MakeInput(startISO, endISO, userTimeZone, eventTimeZone) ==
    [originalEvent |-> StoredEvent(eventTimeZone),
     proposedStartISO |-> startISO,
     proposedEndISO |-> endISO,
     userTimeZone |-> userTimeZone,
     calendarId |-> "primary",
     accessToken |-> "mock-token"]

EnvUnset == [defined |-> FALSE, parses |-> FALSE, parsed |-> <<>>]
EnvJSON(parsed) == [defined |-> TRUE, parses |-> TRUE, parsed |-> parsed]

\* process.env.GUARDRAILS_JSON = undefined: the string "undefined", which
\* JSON.parse rejects
EnvUnparsable == [defined |-> TRUE, parses |-> FALSE, parsed |-> <<>>]

\* wall-clock readings of proposed starts: every hour of days 1..MaxDay,
\* and the minute before and after it
StartWalls == {At(d, h, 0) + e : d \in 1..MaxDay, h \in 0..23, e \in {-1, 0, 1}}

\* offsets the proposed timestamps are written with: Z and -04:00
IsoOffsets == {0, -(4 * 60)}

\* length of the proposed window, in minutes
Durations == {0, 60, 8 * 60}

\* (userTimeZone, originalEvent.start.timeZone)
ZonePairs == {<<Undefined, Undefined>>, <<"Asia/Tokyo", "America/New_York">>}

TimeInputs ==
    {MakeInput([wall |-> w, off |-> o], [wall |-> w + len, off |-> o],
               z[1], z[2]) :
        w \in StartWalls, o \in IsoOffsets, len \in Durations, z \in ZonePairs}

\* validateReschedule(input): no second argument
NoPolicyArg == [given |-> FALSE, value |-> defaultPolicy]

\* validateReschedule(validationInput, policy): the effective policy of a
\* case, the default policy overridden by the case's fields
PolicyArgs(envs) ==
    {NoPolicyArg} \cup {[given |-> TRUE, value |-> loadPolicy(e)] : e \in envs}

\* Saturday 09:00 UTC and Sunday 13:00 UTC
Clocks == {At(0, 9, 0), At(1, 13, 0)}

\* GUARDRAILS_JSON values that change the time rules
TimeEnvs ==
    {EnvUnset,
     EnvJSON([policyTimeZone |-> "Asia/Tokyo"]),
     EnvJSON([policyTimeZone |-> "America/New_York", minNoticeHours |-> 48]),
     EnvJSON([minNoticeHours |-> 0,
              businessHoursByWeekday |->
                  (0 :> [start |-> <<10, 0>>, end |-> <<14, 0>>]
                   @@ 1 :> [start |-> <<9, 30>>, end |-> <<12, 0>>])])}

\* GUARDRAILS_JSON values that change the conflict rules
ConflictEnvs ==
    {EnvJSON([conflictMethod |-> m, treatTentativeAsBusy |-> t,
              ignoreDeclined |-> d, calendarsToCheck |-> c]) :
        m \in {"freebusy", "list"}, t \in BOOLEAN, d \in BOOLEAN,
        c \in {[isArray |-> TRUE, ids |-> <<>>],
               [isArray |-> TRUE, ids |-> <<"team">>],
               [isArray |-> TRUE, ids |-> <<"primary", "team">>],
               [isArray |-> FALSE, ids |-> <<>>]}}

UTCWindow(from, to) ==
    MakeInput(ToISOString(from), ToISOString(to), "UTC", "UTC")

\* proposals, one for each outcome of the two time rules under the default
\* policy, and one on a Tuesday: (clock, input)
TimeCases ==
    {<<At(0, 9, 0), UTCWindow(At(2, 10, 0), At(2, 11, 0))>>,
     <<At(0, 9, 0), UTCWindow(At(1, 8, 0), At(1, 9, 0))>>,
     <<At(0, 9, 0), UTCWindow(At(1, 10, 0), At(1, 11, 0))>>,
     <<At(1, 13, 0), UTCWindow(At(2, 10, 0), At(2, 11, 0))>>,
     <<At(0, 9, 0), UTCWindow(At(3, 10, 0), At(3, 11, 0))>>}

DefaultRequest ==
    [path |-> "/api/reschedule", hasToken |-> TRUE,
     eventId |-> "test-event-id", hasFields |-> TRUE,
     newLocal |-> At(2, 10, 0), keepDuration |-> TRUE,
     userTimeZone |-> "UTC"]

Routes == {"/api/reschedule", "/api/validate-reschedule"}

\* every third hour of the days 1..MaxDay
RequestWalls == {At(d, 3 * h + 1, 0) : d \in 1..MaxDay, h \in 0..7}

Requests ==
    {[path |-> r, hasToken |-> tok, eventId |-> "test-event-id",
      hasFields |-> f, newLocal |-> w, keepDuration |-> k,
      userTimeZone |-> z] :
        r \in Routes, tok \in BOOLEAN, f \in BOOLEAN, w \in RequestWalls,
        k \in BOOLEAN, z \in {Undefined, "Asia/Tokyo"}}

----------------------------------------------------------------------------
(* The page: app/page.tsx and components/GuardrailPanel.tsx *)

\* Intl.DateTimeFormat().resolvedOptions().timeZone in the browser
BrowserTimeZone == "UTC"

\* useState(""): no date, no time entered
NoDate == 0
NoTime == 0 - 1

\* useState<Event | null>(null)
NoEventData == [id |-> ""]

\* what a request of the page was sent for
NothingSent == [sent |-> FALSE, newDate |-> NoDate, newTime |-> NoTime]

\* the state of CalendarRescheduler after the mount effects, signed in, with
\* the events loaded.  validating, validated and submitted are the record of
\* the page's requests: the values the validation in flight was sent for, the
\* values and the outcome of the last validation answered (forgotten when
\* the event, the date or the time is changed), and the values submitted.
PageLoaded(events, keepDuration) ==
    [events |-> events,
     selectedEvent |-> "",
     selectedEventData |-> NoEventData,
     newDate |-> NoDate,
     newTime |-> NoTime,
     keepDuration |-> keepDuration,
     isRescheduled |-> FALSE,
     isRescheduling |-> FALSE,
     violations |-> <<>>,
     isValidating |-> FALSE,
     userTimeZone |-> BrowserTimeZone,
     validating |-> NothingSent,
     validated |-> [sent |-> FALSE, ok |-> FALSE, newDate |-> NoDate,
                    newTime |-> NoTime, violations |-> <<>>],
     submitted |-> NothingSent]

\* no page is open
NoPage == PageLoaded({}, TRUE)

\* new Date(`${newDate}T${newTime}:00`) in the browser
BrowserDate(newDate, newTime) ==
    LET wall == newDate * MinutesPerDay + newTime
    IN  wall - ZoneOffset(BrowserTimeZone, wall)

\* start.toISOString().split('T')[0]
DateOfISO(instant) == ToISOString(instant).wall \div MinutesPerDay

\* start.toTimeString().slice(0, 5)
TimeOfDayString(instant) ==
    SetZone(instant, BrowserTimeZone).local % MinutesPerDay

\* selectedEventData && newDate && newTime
FormFilled(p) ==
    p.selectedEventData # NoEventData /\ p.newDate # NoDate /\ p.newTime # NoTime

\* the body of the fetch of validateProposedTime
ValidateBody(p) ==
    [eventId |-> p.selectedEventData.id, newDate |-> p.newDate,
     newTime |-> p.newTime, keepDuration |-> p.keepDuration,
     userTimeZone |-> p.userTimeZone]

\* the body of the fetch of handleReschedule
RescheduleBody(p) ==
    LET newStart == BrowserDate(p.newDate, p.newTime)
        duration == p.selectedEventData.end.at - p.selectedEventData.start.at
        newEnd == IF p.keepDuration THEN newStart + duration
                  ELSE BrowserDate(p.newDate, p.newTime)
    IN  [eventId |-> p.selectedEventData.id,
         newStartISO |-> ToISOString(newStart),
         newEndISO |-> ToISOString(newEnd),
         timeZone |-> p.userTimeZone]

\* const { eventId, newDate, newTime, keepDuration, userTimeZone } =
\* await request.json(): a field the body does not carry is undefined
ReadBody(path, hasToken, body) ==
    LET has(f) == f \in DOMAIN body
        given == has("newDate") /\ has("newTime")
    IN  [path |-> path, hasToken |-> hasToken, eventId |-> body.eventId,
         hasFields |-> given,
         newLocal |-> IF given THEN body.newDate * MinutesPerDay + body.newTime
                      ELSE 0,
         keepDuration |-> IF has("keepDuration") THEN body.keepDuration
                          ELSE FALSE,
         userTimeZone |-> IF has("userTimeZone") THEN body.userTimeZone
                          ELSE Undefined]

\* disabled={!selectedEvent || !newDate || !newTime || isRescheduling ||
\* violations.length > 0} of the Reschedule button
RescheduleDisabled(p) ==
    \/ p.selectedEvent = ""
    \/ p.newDate = NoDate
    \/ p.newTime = NoTime
    \/ p.isRescheduling
    \/ Len(p.violations) > 0

\* the badge of GuardrailPanel reads 'All Clear'
AllClear(p) == FormFilled(p) /\ ~p.isValidating /\ ~(Len(p.violations) > 0)

\* the server starts handling a request of the page.  The requests of the
\* page are taken one at a time: a second request is sent only when the first
\* has been answered
HandleRequest(req) ==
    /\ routePc \in {"idle", "done"}
    /\ pc \in {"idle", "done"}
    /\ request' = req
    /\ pc' = "idle"
    /\ policy' = defaultPolicy
    /\ violations' = <<>>
    /\ calendarIds' = <<>>
    /\ listIdx' = 1
    /\ fbCalls' = <<>>
    /\ listCalls' = <<>>
    /\ returned' = NotReturned
    /\ earlier' = NoEarlierCall
    /\ routePc' = "idle"
    /\ routeWork' = [newStart |-> 0, newEnd |-> 0]
    /\ response' = NoResponse
    /\ getCalls' = <<>>
    /\ patchCalls' = <<>>
    /\ UNCHANGED <<env, now, input, policyArg, harness, calendarEvent>>

\* a step of the page alone
PageOnly == UNCHANGED <<env, now, input, policyArg, request, harness,
                        engineVars, routeVars>>

\* handleEventSelect
HandleEventSelect ==
    /\ ~page.isRescheduled
    /\ \E event \in page.events :
          /\ page.selectedEvent # event.id
          /\ page' = [page EXCEPT
                 !.selectedEvent = event.id,
                 !.selectedEventData = event,
                 !.newDate = DateOfISO(event.start.at),
                 !.newTime = TimeOfDayString(event.start.at),
                 !.validated.sent = FALSE]
    /\ PageOnly

\* onChange of the date input
ChangeDate(dates) ==
    /\ ~page.isRescheduled
    /\ \E d \in dates :
          /\ d # page.newDate
          /\ page' = [page EXCEPT !.newDate = d, !.violations = <<>>,
                                  !.validated.sent = FALSE]
    /\ PageOnly

\* onChange of the time input
ChangeTime(times) ==
    /\ ~page.isRescheduled
    /\ \E t \in times :
          /\ t # page.newTime
          /\ page' = [page EXCEPT !.newTime = t, !.violations = <<>>,
                                  !.validated.sent = FALSE]
    /\ PageOnly

\* validateProposedTime up to the fetch; the cookie may have expired
ValidateProposedTime ==
    /\ ~page.isRescheduled
    /\ FormFilled(page)
    /\ ~page.isValidating
    /\ ~page.isRescheduling
    /\ page' = [page EXCEPT
           !.isValidating = TRUE,
           !.validating = [sent |-> TRUE, newDate |-> page.newDate,
                           newTime |-> page.newTime]]
    /\ \E hasToken \in BOOLEAN :
          HandleRequest(ReadBody("/api/validate-reschedule", hasToken,
                                 ValidateBody(page)))

\* validateProposedTime after the fetch: the response arrives, or the fetch
\* fails
ValidateProposedTimeAnswered ==
    /\ page.isValidating
    /\ request.path = "/api/validate-reschedule"
    /\ routePc = "done"
    /\ \/ LET ok == "violations" \in DOMAIN response
               shown == IF ok THEN response.violations ELSE <<>>
           IN  page' = [page EXCEPT
                   !.violations = shown,
                   !.isValidating = FALSE,
                   !.validated = [sent |-> TRUE, ok |-> ok,
                                  newDate |-> page.validating.newDate,
                                  newTime |-> page.validating.newTime,
                                  violations |-> shown]]
       \/ page' = [page EXCEPT
               !.violations = <<>>,
               !.isValidating = FALSE,
               !.validated = [sent |-> TRUE, ok |-> FALSE,
                              newDate |-> page.validating.newDate,
                              newTime |-> page.validating.newTime,
                              violations |-> <<>>]]
    /\ PageOnly

\* handleReschedule up to the fetch
HandleReschedule ==
    /\ ~page.isRescheduled
    /\ ~RescheduleDisabled(page)
    /\ FormFilled(page)
    /\ ~page.isValidating
    /\ page' = [page EXCEPT
           !.isRescheduling = TRUE,
           !.submitted = [sent |-> TRUE, newDate |-> page.newDate,
                          newTime |-> page.newTime]]
    /\ HandleRequest(ReadBody("/api/reschedule", TRUE, RescheduleBody(page)))

\* handleReschedule after the fetch
HandleRescheduleAnswered ==
    /\ page.isRescheduling
    /\ request.path = "/api/reschedule"
    /\ routePc = "done"
    /\ IF response.status = 200
       THEN page' = [page EXCEPT !.isRescheduled = TRUE,
                                 !.isRescheduling = FALSE,
                                 !.events = {calendarEvent}]
       ELSE page' = [page EXCEPT
                !.violations = <<[code |-> response.body,
                                  message |-> response.body]>>,
                !.isRescheduling = FALSE]
    /\ PageOnly

\* the dates and times the user enters
PageDates == {2, 3}
PageTimes == {10 * 60, 20 * 60}

----------------------------------------------------------------------------
(* Specifications *)

InitCalls ==
    /\ pc = "idle"
    /\ policy = defaultPolicy
    /\ violations = <<>>
    /\ calendarIds = <<>>
    /\ listIdx = 1
    /\ fbCalls = <<>>
    /\ listCalls = <<>>
    /\ returned = NotReturned
    /\ earlier = NoEarlierCall
    /\ routePc = "idle"
    /\ routeWork = [newStart |-> 0, newEnd |-> 0]
    /\ response = NoResponse
    /\ getCalls = <<>>
    /\ patchCalls = <<>>

InitControl ==
    /\ InitCalls
    /\ harness = NoHarness
    /\ page = NoPage

\* the conflict rules in full, four proposals
Init ==
    /\ env \in ConflictEnvs
    /\ \E tc \in TimeCases : now = tc[1] /\ input = tc[2]
    /\ policyArg = NoPolicyArg
    /\ request = DefaultRequest
    /\ calendarEvent = StoredEvent("UTC")
    /\ InitControl

Next ==
    \/ ValidateStart
    \/ FreeBusyQuery(BusyOptions(Window(input)))
    \/ ListEvents(AllItems)
    \/ RescheduleReceive
    \/ RescheduleGet
    \/ ReschedulePatch

Spec == Init /\ [][Next]_vars

\* the time rules in full, a provider that reports nothing or fails
InitTime ==
    /\ env \in TimeEnvs
    /\ now \in Clocks
    /\ input \in TimeInputs
    /\ policyArg = NoPolicyArg
    /\ request = DefaultRequest
    /\ calendarEvent = StoredEvent("UTC")
    /\ InitControl

NextTime ==
    \/ ValidateStart
    \/ FreeBusyQuery(QuietBusyOptions(Window(input)))
    \/ ListEvents(QuietItems)
    \/ RescheduleReceive
    \/ RescheduleGet
    \/ ReschedulePatch

SpecTime == InitTime /\ [][NextTime]_vars

\* GUARDRAILS_JSON values an operator may set, among them hours that close
\* before they open and hours that close when they open
LoadEnvs ==
    TimeEnvs \cup {EnvUnparsable} \cup
    {EnvJSON([businessHoursByWeekday |->
                [d \in 1..5 |-> [start |-> <<o, 0>>, end |-> <<c, 0>>]]]) :
        o \in {9, 17}, c \in {9, 17}}

\* the environments whose policy validatePolicy finds fault with
MalformedEnvs == {e \in LoadEnvs : validatePolicy(loadPolicy(e)) # {}}

\* calls under a policy loaded from any of these environments
InitLoad ==
    /\ env \in LoadEnvs
    /\ \E tc \in TimeCases : now = tc[1] /\ input = tc[2]
    /\ policyArg = NoPolicyArg
    /\ request = DefaultRequest
    /\ calendarEvent = StoredEvent("UTC")
    /\ InitControl

SpecLoad == InitLoad /\ [][NextTime]_vars

\* calls that pass a policy of their own, under any environment
InitArg ==
    /\ env \in TimeEnvs
    /\ \E tc \in TimeCases : now = tc[1] /\ input = tc[2]
    /\ policyArg \in PolicyArgs(TimeEnvs \cup ConflictEnvs)
    /\ request = DefaultRequest
    /\ calendarEvent = StoredEvent("UTC")
    /\ InitControl

SpecArg == InitArg /\ [][NextTime]_vars

\* two calls one after the other, against plain calendars
NextTwice ==
    \/ ValidateStart
    \/ FreeBusyQuery(PlainBusyOptions(Window(input)))
    \/ ListEvents(PlainItems)
    \/ CallAgain
    \/ RescheduleReceive
    \/ RescheduleGet
    \/ ReschedulePatch

SpecTwice == Init /\ [][NextTwice]_vars

\* the requests to POST /api/reschedule in full
InitRoute ==
    /\ env \in {EnvUnset}
    /\ now \in Clocks
    /\ input = UTCWindow(At(2, 10, 0), At(2, 11, 0))
    /\ policyArg = NoPolicyArg
    /\ request \in Requests
    /\ calendarEvent = StoredEvent("UTC")
    /\ InitControl

\* eval cases: the case's nowISO and the system clock at the time of the run
InitEval ==
    /\ env \in {EnvUnset}
    /\ now \in Clocks
    /\ \E tc \in TimeCases : input = tc[2]
    /\ policyArg = [given |-> TRUE, value |-> defaultPolicy]
    /\ request = DefaultRequest
    /\ harness \in {HarnessFor(t) : t \in Clocks}
    /\ page = NoPage
    /\ calendarEvent = StoredEvent("UTC")
    /\ InitCalls

NextEval ==
    \/ RunTestCaseBegin
    \/ ValidateStart
    \/ FreeBusyQuery(PlainBusyOptions(Window(input)))
    \/ ListEvents(PlainItems)
    \/ RunTestCaseEnd

SpecEval == InitEval /\ [][NextEval]_vars

\* requests about a timed or an all-day event
InitAllDay ==
    /\ env \in {EnvUnset}
    /\ now = At(0, 9, 0)
    /\ input = UTCWindow(At(2, 10, 0), At(2, 11, 0))
    /\ policyArg = NoPolicyArg
    /\ request \in Requests
    /\ calendarEvent \in {StoredEvent("UTC"), AllDayEvent}
    /\ InitControl

\* the steps of the two routes and of the validation they run, against plain
\* calendars
NextRoute ==
    \/ RescheduleReceive
    \/ RescheduleGet
    \/ ReschedulePatch
    \/ ValidateReceive
    \/ ValidateGet
    \/ ValidateStart
    \/ FreeBusyQuery(PlainBusyOptions(Window(input)))
    \/ ListEvents(PlainItems)
    \/ ValidateRespond

SpecRoute == InitRoute /\ [][NextRoute]_vars

SpecAllDay == InitAllDay /\ [][NextRoute]_vars

\* the page, signed in, with the stored event loaded
InitPage ==
    /\ env \in {EnvUnset}
    /\ now = At(1, 13, 0)
    /\ input = UTCWindow(At(2, 10, 0), At(2, 11, 0))
    /\ policyArg = NoPolicyArg
    /\ request = DefaultRequest
    /\ harness = NoHarness
    /\ calendarEvent = StoredEvent("UTC")
    /\ page \in {PageLoaded({calendarEvent}, k) : k \in BOOLEAN}
    /\ InitCalls

\* the user's steps, the page's requests and the routes that answer them
NextPage ==
    \/ HandleEventSelect
    \/ ChangeDate(PageDates)
    \/ ChangeTime(PageTimes)
    \/ ValidateProposedTime
    \/ ValidateProposedTimeAnswered
    \/ HandleReschedule
    \/ HandleRescheduleAnswered
    \/ NextRoute

SpecPage == InitPage /\ [][NextPage]_vars

----------------------------------------------------------------------------
(* Vocabulary of the properties *)

Reported(code) ==
    \E i \in 1..Len(returned.violations) : returned.violations[i].code = code

TimesReported(code) ==
    Cardinality({i \in 1..Len(returned.violations) :
                    returned.violations[i].code = code})

IfThen(cond, code) == IF cond THEN <<code>> ELSE <<>>

\* an events.list call that answered and left an event after filtering
FoundEvents(c) ==
    /\ c.outcome = "ok"
    /\ EventsRemain(listEvents(c.items, c.call.treatTentativeAsBusy,
                               c.call.ignoreDeclined))

\* a freebusy.query call that answered with a busy calendar
FoundBusy(c) == c.outcome = "ok" /\ checkConflictsWithFreeBusy(c.answer)

ConflictFound ==
    \/ \E i \in 1..Len(fbCalls) : FoundBusy(fbCalls[i])
    \/ \E i \in 1..Len(listCalls) : FoundEvents(listCalls[i])

ProposedStart == FromISO(input.proposedStartISO)
ProposedEnd == FromISO(input.proposedEndISO)

\* the zone of the business-hours check
HoursZone == OrElseUTC(policy.policyTimeZone, input.originalEvent.start.timeZone)

\* day number and weekday (0 = Sunday) of the proposed start on the wall
\* clock of the business-hours zone; day 0 is a Saturday
StartDay == (ProposedStart + ZoneOffset(HoursZone, ProposedStart)) \div MinutesPerDay
StartWeekday == (StartDay + 6) % 7

\* the instant at which the wall clock of the business-hours zone reads
\* hh:mm on the day of the proposed start
InstantOfWall(hm) ==
    LET wall == StartDay * MinutesPerDay + hm[1] * 60 + hm[2]
    IN  CHOOSE t \in {wall - ZoneOffset(HoursZone, u) :
                        u \in {wall - 24 * 60, wall + 24 * 60}} :
            t + ZoneOffset(HoursZone, t) = wall

OpenInstant == InstantOfWall(policy.businessHoursByWeekday[StartWeekday].start)
CloseInstant == InstantOfWall(policy.businessHoursByWeekday[StartWeekday].end)

----------------------------------------------------------------------------
(* C1: every call of validateReschedule runs the notice check, the        *)
(* business-hours check and the conflict check, whatever the earlier      *)
(* checks returned: availability is queried on every call, and the list   *)
(* returned holds the violations found in the order NOTICE_TOO_SOON,      *)
(* BUSINESS_HOURS_OUTSIDE, TIME_CONFLICT, each at most once, and is empty *)
(* exactly when all three checks pass.                                    *)
C1_AllChecksInFixedOrder ==
    pc = "done" =>
        /\ returned.done
        /\ Len(fbCalls) + Len(listCalls) >= 1
        /\ Codes(returned.violations) =
              IfThen(checkNoticePeriod(input, policy, now) # NoViolation,
                     "NOTICE_TOO_SOON")
              \o IfThen(checkBusinessHours(input, policy) # NoViolation,
                        "BUSINESS_HOURS_OUTSIDE")
              \o IfThen(ConflictFound, "TIME_CONFLICT")

C1_Witness_AllThree ==
    /\ pc = "done"
    /\ Codes(returned.violations) =
          <<"NOTICE_TOO_SOON", "BUSINESS_HOURS_OUTSIDE", "TIME_CONFLICT">>

(* C2: the result holds exactly one NOTICE_TOO_SOON when the proposed     *)
(* start is less than minNoticeHours after the current instant, and none  *)
(* when it is minNoticeHours or more after it: exactly minNoticeHours     *)
(* passes, one minute less fails.                                         *)
C2_NoticeBoundary ==
    pc = "done" =>
        TimesReported("NOTICE_TOO_SOON") =
            IF ProposedStart - now < policy.minNoticeHours * 60 THEN 1 ELSE 0

C2_Witness_ExactlyAtNotice ==
    /\ pc = "done"
    /\ policy.minNoticeHours = 24
    /\ ProposedStart - now = 24 * 60
    /\ ~Reported("NOTICE_TOO_SOON")

(* C3: on a start weekday that has business hours, BUSINESS_HOURS_OUTSIDE *)
(* is reported if and only if the proposed start is before the opening    *)
(* instant or the proposed end after the closing instant of that day; a   *)
(* start at the opening and an end at the closing pass.                   *)
C3_BusinessHoursWindow ==
    (pc = "done" /\ StartWeekday \in DOMAIN policy.businessHoursByWeekday) =>
        (Reported("BUSINESS_HOURS_OUTSIDE")
            <=> (ProposedStart < OpenInstant \/ ProposedEnd > CloseInstant))

C3_Witness_OpenToClose ==
    /\ pc = "done"
    /\ StartWeekday \in DOMAIN policy.businessHoursByWeekday
    /\ ProposedStart = OpenInstant
    /\ ProposedEnd = CloseInstant
    /\ ~Reported("BUSINESS_HOURS_OUTSIDE")

(* C4: a start weekday without an entry in businessHoursByWeekday is      *)
(* blocked all day: every proposal starting on it gets one                *)
(* BUSINESS_HOURS_OUTSIDE whose message names that weekday.               *)
C4_MissingWeekdayBlocked ==
    (pc = "done" /\ StartWeekday \notin DOMAIN policy.businessHoursByWeekday) =>
        /\ TimesReported("BUSINESS_HOURS_OUTSIDE") = 1
        /\ \E i \in 1..Len(returned.violations) :
              /\ returned.violations[i].code = "BUSINESS_HOURS_OUTSIDE"
              /\ returned.violations[i].message =
                    <<"No business hours defined for ",
                      CASE StartWeekday = 0 -> "Sunday"
                        [] StartWeekday = 1 -> "Monday"
                        [] StartWeekday = 2 -> "Tuesday"
                        [] StartWeekday = 3 -> "Wednesday"
                        [] StartWeekday = 4 -> "Thursday"
                        [] StartWeekday = 5 -> "Friday"
                        [] OTHER -> "Saturday",
                      ".">>

C4_Witness_SundayMidday ==
    /\ pc = "done"
    /\ StartWeekday = 0
    /\ 0 \notin DOMAIN policy.businessHoursByWeekday
    /\ ProposedStart = At(1, 10, 0)
    /\ ProposedEnd = At(1, 11, 0)
    /\ \E i \in 1..Len(returned.violations) :
          /\ returned.violations[i].code = "BUSINESS_HOURS_OUTSIDE"
          /\ returned.violations[i].message =
                <<"No business hours defined for ", "Sunday", ".">>

(* C5: when the aggregate query fails and the enumerate fetch then fails  *)
(* for every calendar checked, validateReschedule never returns a list    *)
(* without TIME_CONFLICT (it ends with a thrown error).                   *)
C5_UnreachableSourceNotApproved ==
    ~ /\ pc = "done"
      /\ returned.done
      /\ Len(fbCalls) = 1
      /\ fbCalls[1].outcome = "throw"
      /\ Len(listCalls) = Len(calendarIds)
      /\ \A i \in 1..Len(listCalls) : listCalls[i].outcome = "throw"
      /\ ~Reported("TIME_CONFLICT")

(* C6: with the aggregate strategy selected and the aggregate query       *)
(* throwing, the call still returns; it has then queried events.list for  *)
(* the same window and the same calendars, in order, and TIME_CONFLICT is *)
(* reported exactly when that enumeration found a remaining event (all    *)
(* calendars were enumerated when it found none).                         *)
C6_FallbackToEnumerate ==
    (/\ pc = "done"
     /\ policy.conflictMethod = "freebusy"
     /\ Len(fbCalls) >= 1
     /\ fbCalls[1].outcome = "throw") =>
        /\ returned.done
        /\ Len(listCalls) >= 1
        /\ Len(listCalls) <= Len(fbCalls[1].call.calendarIds)
        /\ \A i \in 1..Len(listCalls) :
              /\ listCalls[i].call.window = fbCalls[1].call.window
              /\ listCalls[i].call.calendarId = fbCalls[1].call.calendarIds[i]
        /\ Reported("TIME_CONFLICT")
              <=> \E i \in 1..Len(listCalls) : FoundEvents(listCalls[i])
        /\ ~Reported("TIME_CONFLICT")
              => Len(listCalls) = Len(fbCalls[1].call.calendarIds)

C6_Witness_FallbackFindsNothing ==
    /\ pc = "done"
    /\ Len(fbCalls) = 1
    /\ fbCalls[1].outcome = "throw"
    /\ Len(listCalls) = 2
    /\ \A i \in 1..2 : listCalls[i].outcome = "ok"
    /\ returned.done
    /\ returned.violations = <<>>

\* the input POST /api/validate-reschedule builds for the new start and end
\* computed by the reschedule route
RouteProposal ==
    MakeInput(ToISOString(routeWork.newStart), ToISOString(routeWork.newEnd),
              ServerTimeZone, calendarEvent.start.timeZone)

(* C7: POST /api/reschedule issues events.patch only for a request that   *)
(* validateReschedule finds free of violations (here: of the two time     *)
(* rules, which depend on the request alone).                             *)
C7_PatchOnlyWhenValid ==
    patchCalls # <<>> =>
        /\ checkNoticePeriod(RouteProposal, loadPolicy(env), now) = NoViolation
        /\ checkBusinessHours(RouteProposal, loadPolicy(env)) = NoViolation

\* the caller's own attendee entry says declined
DeclinedByCaller(e) ==
    /\ e.hasAttendees
    /\ \E j \in 1..Len(e.attendees) :
          e.attendees[j].self /\ e.attendees[j].responseStatus = "declined"

\* an event that counts towards a conflict under the loaded policy
CountsAsBusy(e) ==
    /\ e.status # "cancelled"
    /\ ~(policy.ignoreDeclined /\ DeclinedByCaller(e))
    /\ ~(~policy.treatTentativeAsBusy /\ e.status = "tentative")

(* C8: in the enumerate strategy TIME_CONFLICT is reported exactly when   *)
(* some calendar that was fetched successfully returned an event that is  *)
(* not cancelled, not declined by the caller while ignoreDeclined is on,  *)
(* and not tentative while treatTentativeAsBusy is off.                   *)
C8_EnumerateFilter ==
    (pc = "done" /\ Len(listCalls) >= 1) =>
        (Reported("TIME_CONFLICT")
            <=> \E i \in 1..Len(listCalls) :
                    /\ listCalls[i].outcome = "ok"
                    /\ \E k \in 1..Len(listCalls[i].items) :
                          CountsAsBusy(listCalls[i].items[k]))

C8_Witness_OthersDeclineCounts ==
    /\ pc = "done"
    /\ policy.ignoreDeclined
    /\ ~policy.treatTentativeAsBusy
    /\ Len(listCalls) = 1
    /\ listCalls[1].outcome = "ok"
    /\ listCalls[1].items =
          <<[status |-> "confirmed", hasAttendees |-> TRUE,
             attendees |-> <<[self |-> FALSE, responseStatus |-> "declined"],
                             [self |-> TRUE, responseStatus |-> "accepted"]>>]>>
    /\ Reported("TIME_CONFLICT")

(* C9: in the enumerate strategy a failed fetch is swallowed: the call    *)
(* still returns, the calendars are fetched in order until one has a      *)
(* remaining event or all have been fetched, a failed fetch neither stops *)
(* the loop nor counts as a conflict, and TIME_CONFLICT is reported       *)
(* exactly when the last calendar fetched had a remaining event.          *)
C9_FetchFailureSwallowed ==
    (pc = "done" /\ Len(listCalls) >= 1) =>
        LET n == Len(listCalls)
        IN  /\ returned.done
            /\ n <= Len(calendarIds)
            /\ \A i \in 1..n : listCalls[i].call.calendarId = calendarIds[i]
            /\ \A i \in 1..(n - 1) : ~FoundEvents(listCalls[i])
            /\ n < Len(calendarIds) => FoundEvents(listCalls[n])
            /\ Reported("TIME_CONFLICT") <=> FoundEvents(listCalls[n])

C9_Witness_ConflictAfterFailure ==
    /\ pc = "done"
    /\ Len(listCalls) = 2
    /\ listCalls[1].outcome = "throw"
    /\ listCalls[2].outcome = "ok"
    /\ Reported("TIME_CONFLICT")

(* C10: with the aggregate strategy and a query that succeeds,            *)
(* TIME_CONFLICT is reported exactly when some calendar of the answer has *)
(* a non-empty busy list, whether or not its intervals overlap the        *)
(* window, and events.list is not consulted.                              *)
C10_AggregateBusyList ==
    (pc = "done" /\ Len(fbCalls) >= 1 /\ fbCalls[1].outcome = "ok") =>
        /\ Reported("TIME_CONFLICT")
              <=> \E k \in 1..Len(fbCalls[1].answer) :
                      /\ fbCalls[1].answer[k].hasBusy
                      /\ fbCalls[1].answer[k].busy # <<>>
        /\ listCalls = <<>>

C10_Witness_BusyElsewhere ==
    /\ pc = "done"
    /\ Len(fbCalls) = 1
    /\ fbCalls[1].outcome = "ok"
    /\ Len(fbCalls[1].answer) = 2
    /\ fbCalls[1].answer[1].busy = <<>>
    /\ fbCalls[1].answer[2].busy = <<WeekBefore(Window(input))>>
    /\ Reported("TIME_CONFLICT")

\* the calendars the policy lists, an absent list counting as none
ListedCalendars ==
    IF policy.calendarsToCheck.isArray
    THEN Range(policy.calendarsToCheck.ids) ELSE {}

\* no id occurs twice in q
Distinct(q) == \A i, j \in 1..Len(q) : q[i] = q[j] => i = j

(* C11: the conflict check queries exactly {input.calendarId} united with *)
(* policy.calendarsToCheck, each id once: the aggregate query names       *)
(* exactly that set, the enumerate calls go through it without a repeat,  *)
(* and an enumeration that found no conflict has fetched all of it.       *)
C11_CalendarSetUnion ==
    pc # "idle" =>
        LET want == {input.calendarId} \cup ListedCalendars
        IN  /\ Range(calendarIds) = want
            /\ Distinct(calendarIds)
            /\ \A i \in 1..Len(fbCalls) :
                  /\ Range(fbCalls[i].call.calendarIds) = want
                  /\ Distinct(fbCalls[i].call.calendarIds)
            /\ Distinct([i \in 1..Len(listCalls) |-> listCalls[i].call.calendarId])
            /\ \A i \in 1..Len(listCalls) : listCalls[i].call.calendarId \in want
            /\ (pc = "done" /\ listCalls # <<>> /\ ~Reported("TIME_CONFLICT"))
                  => {listCalls[i].call.calendarId : i \in 1..Len(listCalls)} = want

C11_Witness_TargetAlsoListed ==
    /\ pc = "done"
    /\ policy.calendarsToCheck = [isArray |-> TRUE, ids |-> <<"primary", "team">>]
    /\ input.calendarId = "primary"
    /\ Len(fbCalls) = 1
    /\ fbCalls[1].call.calendarIds = <<"primary", "team">>
    /\ Len(listCalls) = 2

\* the zone the business-hours rule is to be evaluated in
EvaluationZone ==
    IF policy.policyTimeZone # Undefined THEN policy.policyTimeZone
    ELSE IF input.originalEvent.start.timeZone # Undefined
         THEN input.originalEvent.start.timeZone
         ELSE "UTC"

\* what the wall clock of the evaluation zone reads at instant t, in minutes
\* since 00:00 of day 0
WallIn(zone, t) == t + ZoneOffset(zone, t)

\* minutes after midnight of an HH:MM entry
MinuteOfDay(hm) == hm[1] * 60 + hm[2]

(* C12: the business-hours check works on the wall clock of its           *)
(* evaluation zone (policyTimeZone, else the original event's zone, else  *)
(* UTC; never userTimeZone, never the offset the timestamp is written     *)
(* with): a reported violation names that zone and the weekday            *)
(* (0 = Sunday) the zone's wall clock shows at the proposed start, and    *)
(* the verdict is the comparison of the zone's wall-clock readings of     *)
(* start and end with the open and close times of that weekday.           *)
C12_EvaluationZoneWallClock ==
    pc = "done" =>
        LET wallStart == WallIn(EvaluationZone, ProposedStart)
            wallEnd == WallIn(EvaluationZone, ProposedEnd)
            day == wallStart \div MinutesPerDay
            weekday == (day + 6) % 7
            hours == policy.businessHoursByWeekday
        IN  /\ \A i \in 1..Len(returned.violations) :
                  returned.violations[i].code = "BUSINESS_HOURS_OUTSIDE" =>
                      /\ returned.violations[i].evaluationTimeZone = EvaluationZone
                      /\ returned.violations[i].weekday = weekday
            /\ Reported("BUSINESS_HOURS_OUTSIDE") <=>
                  \/ weekday \notin DOMAIN hours
                  \/ wallStart < day * MinutesPerDay + MinuteOfDay(hours[weekday].start)
                  \/ wallEnd > day * MinutesPerDay + MinuteOfDay(hours[weekday].end)

\* Monday 20:00-21:00 UTC written with Z by a caller in Tokyo, for an event
\* stored in New York: 16:00-17:00 there, inside the hours
C12_Witness_EventZoneDecides ==
    /\ pc = "done"
    /\ policy.policyTimeZone = Undefined
    /\ policy.businessHoursByWeekday = defaultPolicy.businessHoursByWeekday
    /\ input.userTimeZone = "Asia/Tokyo"
    /\ input.originalEvent.start.timeZone = "America/New_York"
    /\ input.proposedStartISO = [wall |-> At(2, 20, 0), off |-> 0]
    /\ input.proposedEndISO = [wall |-> At(2, 21, 0), off |-> 0]
    /\ ~Reported("BUSINESS_HOURS_OUTSIDE")

\* what the provider answered to a call, keyed by what was asked
FreeBusyData(calls) ==
    {<<calls[i].call, calls[i].outcome, calls[i].answer>> : i \in 1..Len(calls)}
ListData(calls) ==
    {<<calls[i].call.calendarId, calls[i].call.window, calls[i].outcome,
       calls[i].items>> : i \in 1..Len(calls)}

\* the calendar data did not change between the two calls: no question was
\* answered in two ways
SameCalendarData ==
    /\ \A a, b \in FreeBusyData(fbCalls) \cup FreeBusyData(earlier.fbCalls) :
          a[1] = b[1] => a = b
    /\ \A a, b \in ListData(listCalls) \cup ListData(earlier.listCalls) :
          (a[1] = b[1] /\ a[2] = b[2]) => a = b

(* C13: a second call of validateReschedule with the same input, under    *)
(* the same environment, the same current instant and the same calendar   *)
(* data returns the same violation list as the first and asks the         *)
(* provider the same questions: the first call left nothing behind that   *)
(* changes the second.                                                    *)
C13_SecondCallSameResult ==
    (pc = "done" /\ earlier.done /\ SameCalendarData) =>
        /\ returned.violations = earlier.violations
        /\ fbCalls = earlier.fbCalls
        /\ listCalls = earlier.listCalls

C13_Witness_TwiceAllThree ==
    /\ pc = "done"
    /\ earlier.done
    /\ SameCalendarData
    /\ Len(fbCalls) = 1
    /\ Len(listCalls) = 2
    /\ Codes(returned.violations) =
          <<"NOTICE_TOO_SOON", "BUSINESS_HOURS_OUTSIDE", "TIME_CONFLICT">>

(* C14: a call that passes a policy is evaluated against that policy:    *)
(* the notice and business-hours verdicts are those of the passed policy  *)
(* and the calendars queried are those it lists.                          *)
C14_PassedPolicyIsUsed ==
    (pc = "done" /\ policyArg.given) =>
        /\ Reported("NOTICE_TOO_SOON")
              <=> checkNoticePeriod(input, policyArg.value, now) # NoViolation
        /\ Reported("BUSINESS_HOURS_OUTSIDE")
              <=> checkBusinessHours(input, policyArg.value) # NoViolation
        /\ calendarIds = CalendarsToQuery(input, policyArg.value)

(* C15: every policy a validation call works with satisfies the policy    *)
(* invariant: each weekday entry opens strictly before it closes.         *)
C15_LoadedPolicyWellFormed ==
    pc # "idle" =>
        \A d \in DOMAIN policy.businessHoursByWeekday :
            MinuteOfDay(policy.businessHoursByWeekday[d].start)
                < MinuteOfDay(policy.businessHoursByWeekday[d].end)

(* C16: a request without access_token cookie, to either route, is       *)
(* answered 401 'Not authenticated' and causes no calendar call: no event *)
(* fetch, no validation (no availability query), no patch.                *)
C16_NoCookieNoCalls ==
    ~request.hasToken =>
        /\ getCalls = <<>>
        /\ patchCalls = <<>>
        /\ routePc \in {"idle", "done"}
        /\ routePc = "done" =>
              /\ response = [status |-> 401, body |-> "Not authenticated"]
              /\ pc = "idle"
              /\ fbCalls = <<>>
              /\ listCalls = <<>>

C16_Witness_ValidateWithoutCookie ==
    /\ ~request.hasToken
    /\ request.path = "/api/validate-reschedule"
    /\ request.hasFields
    /\ routePc = "done"
    /\ response.status = 401

(* C17: POST /api/validate-reschedule, for an authenticated request with  *)
(* all fields: when the event fetch throws, the answer is 500 with an     *)
(* error and neither valid nor violations; otherwise it is 200 with the   *)
(* violations validateReschedule returned, and valid is true exactly when *)
(* that list is empty.                                                    *)
C17_ValidExactlyWhenNoViolation ==
    (/\ request.path = "/api/validate-reschedule"
     /\ request.hasToken
     /\ request.hasFields
     /\ routePc = "done") =>
        /\ Len(getCalls) = 1
        /\ IF getCalls[1].outcome = "throw"
           THEN /\ response.status = 500
                /\ response.body = "Failed to validate reschedule request"
                /\ "valid" \notin DOMAIN response
                /\ "violations" \notin DOMAIN response
                /\ fbCalls = <<>> /\ listCalls = <<>>
           ELSE /\ response.status = 200
                /\ returned.done
                /\ response.violations = returned.violations
                /\ response.valid <=> (response.violations = <<>>)

C17_Witness_InvalidWithConflict ==
    /\ request.path = "/api/validate-reschedule"
    /\ routePc = "done"
    /\ response.status = 200
    /\ ~response.valid
    /\ Codes(response.violations) = <<"TIME_CONFLICT">>

\* the calls one validation has issued so far form a primary->fallback chain
ChainSoFar ==
    /\ Len(fbCalls) <= 1
    /\ fbCalls # <<>> => policy.conflictMethod = "freebusy"
    /\ listCalls # <<>> =>
          \/ policy.conflictMethod # "freebusy"
          \/ fbCalls # <<>> /\ fbCalls[1].outcome = "throw"
    /\ Len(listCalls) <= Len(calendarIds)
    /\ Distinct([i \in 1..Len(listCalls) |-> listCalls[i].call.calendarId])

(* C18: in one validation call the aggregate source is queried at most    *)
(* once and only when conflictMethod selects it; the enumerate source is  *)
(* used only as the primary strategy or after the aggregate query threw,  *)
(* at most once per calendar; no aggregate query follows an enumerate     *)
(* call, and after a failed enumerate call the only further call is the   *)
(* fetch of the next calendar.                                            *)
C18_PrimaryThenFallbackOnce ==
    /\ []ChainSoFar
    /\ [][fbCalls' # fbCalls => (listCalls = <<>> /\ listCalls' = <<>>)]_vars
    /\ [][listCalls' # listCalls =>
            /\ fbCalls' = fbCalls
            /\ Len(listCalls') = Len(listCalls) + 1
            /\ listCalls'[Len(listCalls')].call.calendarId
                  = calendarIds[Len(listCalls')]]_vars

C18_Witness_FailuresDownTheChain ==
    /\ pc = "done"
    /\ Len(fbCalls) = 1
    /\ fbCalls[1].outcome = "throw"
    /\ Len(listCalls) = 2
    /\ listCalls[1].outcome = "throw"
    /\ listCalls[2].outcome = "throw"

\* the strategy whose answer made the conflict check report a conflict
MethodThatFound ==
    IF \E i \in 1..Len(listCalls) : FoundEvents(listCalls[i])
    THEN "list" ELSE "freebusy"

(* C19: a TIME_CONFLICT violation carries the proposed window, the        *)
(* calendars of the conflict check and the method that found the         *)
(* conflict: 'list' when the events.list enumeration found it, also after *)
(* a failed aggregate query.                                              *)
C19_DetailsNameMethodUsed ==
    pc = "done" =>
        \A i \in 1..Len(returned.violations) :
            returned.violations[i].code = "TIME_CONFLICT" =>
                /\ returned.violations[i].proposedStart = input.proposedStartISO
                /\ returned.violations[i].proposedEnd = input.proposedEndISO
                /\ returned.violations[i].calendarsChecked = calendarIds
                /\ returned.violations[i].conflictMethod = MethodThatFound

\* day number of the proposed end on the wall clock of the business-hours
\* zone
EndDay == WallIn(HoursZone, ProposedEnd) \div MinutesPerDay

(* C20: a proposal that starts on a weekday with business hours and ends  *)
(* on a later calendar day (in the evaluation zone) always gets           *)
(* BUSINESS_HOURS_OUTSIDE, and the closing instant it is compared with is *)
(* the close of the start day.                                            *)
C20_EndAfterMidnightBlocked ==
    (/\ pc = "done"
     /\ StartWeekday \in DOMAIN policy.businessHoursByWeekday
     /\ EndDay > StartDay) =>
        /\ TimesReported("BUSINESS_HOURS_OUTSIDE") = 1
        /\ \A i \in 1..Len(returned.violations) :
              returned.violations[i].code = "BUSINESS_HOURS_OUTSIDE" =>
                  returned.violations[i].closeTime = CloseInstant

\* Monday 16:00 to Tuesday 00:00 UTC under the default hours: the start is
\* inside Monday's hours, the end is before Tuesday's close
C20_Witness_MondayIntoTuesday ==
    /\ pc = "done"
    /\ HoursZone = "UTC"
    /\ policy.businessHoursByWeekday = defaultPolicy.businessHoursByWeekday
    /\ ProposedStart = At(2, 16, 0)
    /\ ProposedEnd = At(3, 0, 0)
    /\ Reported("BUSINESS_HOURS_OUTSIDE")

\* the zone the notice rule is to be evaluated in
NoticeEvaluationZone ==
    IF policy.policyTimeZone # Undefined THEN policy.policyTimeZone
    ELSE IF input.userTimeZone # Undefined THEN input.userTimeZone
         ELSE "UTC"

(* C21: the notice check is evaluated in policyTimeZone if set, else in   *)
(* the caller's userTimeZone, else in UTC, never in the zone of the       *)
(* original event: every NOTICE_TOO_SOON reports that zone as its         *)
(* evaluationTimeZone.                                                    *)
C21_NoticeZoneChain ==
    pc = "done" =>
        \A i \in 1..Len(returned.violations) :
            returned.violations[i].code = "NOTICE_TOO_SOON" =>
                returned.violations[i].evaluationTimeZone = NoticeEvaluationZone

C21_Witness_CallerZoneNotEventZone ==
    /\ pc = "done"
    /\ policy.policyTimeZone = Undefined
    /\ input.userTimeZone = "Asia/Tokyo"
    /\ input.originalEvent.start.timeZone = "America/New_York"
    /\ \E i \in 1..Len(returned.violations) :
          /\ returned.violations[i].code = "NOTICE_TOO_SOON"
          /\ returned.violations[i].evaluationTimeZone = "Asia/Tokyo"

(* C22: POST /api/validate-reschedule refuses an all-day event (start     *)
(* with a date and no dateTime): validateReschedule is not run for it,    *)
(* and once the event has been fetched the answer is 400 'Cannot          *)
(* reschedule all-day events'.                                            *)
C22_AllDayEventRefused ==
    (/\ request.path = "/api/validate-reschedule"
     /\ ~calendarEvent.start.hasDateTime
     /\ calendarEvent.start.hasDate
     /\ routePc # "idle") =>
        /\ routePc # "validate"
        /\ pc = "idle"
        /\ fbCalls = <<>> /\ listCalls = <<>>
        /\ (routePc = "done" /\ getCalls # <<>> /\ getCalls[1].outcome = "ok")
              => response = [status |-> 400,
                             body |-> "Cannot reschedule all-day events"]

(* C23: a validation run inside a test case whose clock is frozen at      *)
(* nowISO measures the notice from nowISO, whatever the system clock      *)
(* reads; once runTestCase has ended the clock is unfrozen and the mock   *)
(* data cleared.                                                          *)
C23_NoticeFromFrozenClock ==
    /\ (harness.pc # "idle" /\ pc = "done") =>
          (Reported("NOTICE_TOO_SOON")
              <=> ProposedStart - harness.nowISO < policy.minNoticeHours * 60)
    /\ harness.pc = "ended" =>
          (~harness.frozenNow.frozen /\ ~harness.mockSet)

(* C24: when the page has submitted a reschedule for an event, a date and  *)
(* a time and the calendar provider has answered every call of the route  *)
(* without failing, the route has answered 200 and patched the event to   *)
(* start at the chosen date and time (ending one original duration later  *)
(* when keepDuration is on), and the page, once it has the answer, shows  *)
(* 'Event Rescheduled'.                                                   *)
C24_PageRequestIsPatched ==
    (/\ page.submitted.sent
     /\ request.path = "/api/reschedule"
     /\ routePc = "done"
     /\ Len(getCalls) = 1
     /\ \A i \in DOMAIN getCalls : getCalls[i].outcome = "ok"
     /\ ~(Len(patchCalls) > 0 /\ response.status = 500))
    => LET chosen == BrowserDate(page.submitted.newDate,
                                 page.submitted.newTime)
           duration == page.selectedEventData.end.at
                         - page.selectedEventData.start.at
       IN  /\ response.status = 200
           /\ calendarEvent.start.at = chosen
           /\ page.keepDuration => calendarEvent.end.at = chosen + duration
           /\ ~page.isRescheduling => page.isRescheduled

(* C28: on the page the Reschedule button is enabled, and the panel reads  *)
(* 'All Clear', only when the last validation answered was sent for the   *)
(* event, date and time now entered, came back as a validation result and *)
(* held no violation.                                                      *)
C28_EnabledOnlyWhenApproved ==
    LET approved == /\ page.validated.sent
                    /\ page.validated.newDate = page.newDate
                    /\ page.validated.newTime = page.newTime
                    /\ page.validated.ok
                    /\ Len(page.validated.violations) = 0
    IN  ~page.isRescheduled =>
            /\ ~RescheduleDisabled(page) => approved
            /\ AllClear(page) => approved

(* C29: a violation list that the page shows from a validation answer was *)
(* computed for the date and time now entered: the answer of a request    *)
(* sent for other values is not shown.                                     *)
C29_ShownListIsForEnteredValues ==
    (/\ page.validated.sent
     /\ Len(page.violations) > 0
     /\ page.violations = page.validated.violations)
    => /\ page.validated.newDate = page.newDate
       /\ page.validated.newTime = page.newTime

(* C25: whether NOTICE_TOO_SOON is reported does not depend on the         *)
(* evaluation zone: the same call with any other policyTimeZone and       *)
(* userTimeZone, at the same instant, for the same proposed start and     *)
(* minNoticeHours, agrees with the call made, also when the change to     *)
(* daylight time lies between now and the proposed start.                 *)
C25_NoticeSameInEveryZone ==
    pc = "done" =>
        \A p \in TimeZones \cup {Undefined}, u \in TimeZones \cup {Undefined} :
            LET other == checkNoticePeriod(
                             [input EXCEPT !.userTimeZone = u],
                             [policy EXCEPT !.policyTimeZone = p], now)
            IN  (other.code = "NOTICE_TOO_SOON") <=> Reported("NOTICE_TOO_SOON")

C25_Witness_AcrossDstChange ==
    /\ pc = "done"
    /\ NoticeEvaluationZone = "America/New_York"
    /\ now < DstStart
    /\ ProposedStart > DstStart
    /\ ProposedStart - now = policy.minNoticeHours * 60
    /\ ~Reported("NOTICE_TOO_SOON")

(* C26: the enumerate strategy fetches the calendars in the order of the   *)
(* set, the target calendar first, and a fetch that leaves an event is    *)
(* the last fetch of the call: at that point the call has finished with   *)
(* TIME_CONFLICT, and the calendars after it are not fetched.             *)
C26_EnumerateStopsAtFirstConflict ==
    pc \in {"list", "done"} =>
        /\ Len(listCalls) <= Len(calendarIds)
        /\ Len(listCalls) > 0 =>
              listCalls[1].call.calendarId = input.calendarId
        /\ \A i \in DOMAIN listCalls :
              /\ listCalls[i].call.calendarId = calendarIds[i]
              /\ FoundEvents(listCalls[i]) =>
                    /\ i = Len(listCalls)
                    /\ pc = "done"
                    /\ Reported("TIME_CONFLICT")

C26_Witness_SecondCalendarNotFetched ==
    /\ pc = "done"
    /\ Len(calendarIds) = 2
    /\ Len(listCalls) = 1
    /\ FoundEvents(listCalls[1])
    /\ Reported("TIME_CONFLICT")

(* C27: the policy a call works with is the default policy with each      *)
(* top-level key of GUARDRAILS_JSON put in place of the default value:    *)
(* a businessHoursByWeekday of the JSON is taken whole, so the weekdays   *)
(* it omits have no hours; with the variable unset or unparsable the      *)
(* policy is the default policy, and the call runs to its end.            *)
C27_TopLevelMerge ==
    /\ pc # "idle" =>
          IF env.defined /\ env.parses
          THEN /\ DOMAIN policy = (DOMAIN defaultPolicy) \cup (DOMAIN env.parsed)
               /\ \A k \in DOMAIN env.parsed : policy[k] = env.parsed[k]
               /\ \A k \in (DOMAIN defaultPolicy) \ (DOMAIN env.parsed) :
                     policy[k] = defaultPolicy[k]
          ELSE policy = defaultPolicy
    /\ pc = "done" => returned.done

C27_Witness_OmittedWeekdayClosed ==
    /\ pc = "done"
    /\ env.defined /\ env.parses
    /\ "businessHoursByWeekday" \in DOMAIN env.parsed
    /\ DOMAIN policy.businessHoursByWeekday = {0, 1}
    /\ StartWeekday = 2
    /\ Reported("BUSINESS_HOURS_OUTSIDE")

====
